---- MODULE Spec2Model ----
(***************************************************************************)
(* Mock IELTS & GRE Exam Manager (source.c).                               *)
(*                                                                         *)
(* The parent process forks a child that computes the room of every        *)
(* student and sends it through a pipe; the parent then creates one        *)
(* thread per student.  Students wait on the semaphore exam_gate, enter    *)
(* their room under room_mutex, wait for exam_over on the condition        *)
(* variable end_bell under exam_mutex, and leave.  main posts the gate,    *)
(* signals the end, joins every thread and prints the summary.             *)
(*                                                                         *)
(* NUM_STUDENTS and ROOM_CAPACITY are compile-time parameters of the       *)
(* program; Init draws them from bounded sets.  usleep() and sleep() are   *)
(* delays, not synchronisation: they do not restrict the interleavings.    *)
(* System calls (pipe, fork, malloc, pthread_create) are taken to succeed. *)
(***************************************************************************)
EXTENDS Integers, FiniteSets, Sequences

\* ---------------------------------------------------------------- bounds
MaxStudents == 3
MaxCapacity == 2
MaxFairStudents == 2
MaxAnyStudents == 2

\* ----------------------------------------------------------- thread ids
FREE == -1      \* a mutex nobody holds
MAIN == -2      \* the orchestrating thread as a mutex owner

VARIABLES
    NUM_STUDENTS,     \* #define NUM_STUDENTS
    ROOM_CAPACITY,    \* #define ROOM_CAPACITY
    mpc,              \* position of main
    mi,               \* main's loop index (i or r)
    child,            \* position of the forked child
    pipe,             \* ints written to the pipe and not yet read
    room_ids_buf,     \* main's receive buffer
    rooms,            \* static Room rooms[NUM_ROOMS]
    students,         \* static Student students[NUM_STUDENTS]
    room_attendance,  \* static int room_attendance[NUM_ROOMS]
    exam_gate,        \* value of the semaphore
    room_mutex,       \* owner of room_mutex
    exam_mutex,       \* owner of exam_mutex
    exam_over,        \* static int exam_over
    spc,              \* position of every student thread
    arg,              \* the Thread_student each thread was given
    count,            \* the local count of every student thread
    total,            \* main's local total
    out,              \* what was printed (a record of sets and markers)
    incs,             \* history: number of increments by (student, room)
    late,             \* history: exam_over as seen when awaitEnd was reached
    posted            \* history: number of sem_post calls made

vars == <<NUM_STUDENTS, ROOM_CAPACITY, mpc, mi, child, pipe, room_ids_buf,
          rooms, students, room_attendance, exam_gate, room_mutex, exam_mutex,
          exam_over, spc, arg, count, total, out, incs, late, posted>>

\* ------------------------------------------------------------ parameters
\* a room count that rounds down
NumRoomsFloor(n, c) == n \div c

\* (NUM_STUDENTS + ROOM_CAPACITY - 1) / ROOM_CAPACITY
NumRooms(n, c) == (n + c - 1) \div c
NUM_ROOMS == NumRooms(NUM_STUDENTS, ROOM_CAPACITY)

Students == 0 .. NUM_STUDENTS - 1     \* thread / array indices
Rooms == 0 .. NUM_ROOMS - 1

\* blocks one student wider than the rooms
BlockAssignmentWide(n, c) == [k \in 1 .. n |-> (k - 1) \div (c + 1)]

\* room_ids[i] = i / ROOM_CAPACITY, as the sequence of ints written
BlockAssignment(n, c) == [k \in 1 .. n |-> (k - 1) \div c]

\* an admission counted in the first room whatever the student's room
IncrementFirstRoom(att, r) == [att EXCEPT ![0] = @ + 1]

\* a counter bumped twice by one admission
IncrementTwice(att, r) == [att EXCEPT ![r] = @ + 2]

\* an admission that is refused once the room is full
IncrementIfSeatFree(att, r) ==
    IF att[r] < ROOM_CAPACITY THEN [att EXCEPT ![r] = @ + 1] ELSE att

\* room_attendance[r]++
Increment(att, r) == [att EXCEPT ![r] = @ + 1]

\* an off-by-one capacity test
AtCapacity(c, cap) == c >= cap

\* count > ROOM_CAPACITY / c > rooms[r].capacity
OverCapacity(c, cap) == c > cap

\* ------------------------------------------------------------------ Init
InitWith(n, c) ==
    /\ NUM_STUDENTS = n
    /\ ROOM_CAPACITY = c
    /\ mpc = "fork"
    /\ mi = 0
    /\ child = "none"
    /\ pipe = << >>
    /\ room_ids_buf = [i \in 0 .. n - 1 |-> -1]
    /\ rooms = [r \in 0 .. NumRooms(n, c) - 1 |-> [id |-> 0, capacity |-> 0]]
    /\ students = [i \in 0 .. n - 1 |-> [id |-> 0, room_id |-> 0]]
    /\ room_attendance = [r \in 0 .. NumRooms(n, c) - 1 |-> 0]
    /\ exam_gate = 0
    /\ room_mutex = FREE
    /\ exam_mutex = FREE
    /\ exam_over = 0
    /\ spc = [s \in 0 .. n - 1 |-> "not_created"]
    /\ arg = [s \in 0 .. n - 1 |-> [student_id |-> 0, room_id |-> 0]]
    /\ count = [s \in 0 .. n - 1 |-> 0]
    /\ total = 0
    /\ out = [started |-> FALSE, ended |-> FALSE, entered |-> {},
              errors |-> {}, left |-> {}, summary |-> {}, warnings |-> {},
              total |-> -1]
    /\ incs = [p \in (0 .. n - 1) \X (0 .. NumRooms(n, c) - 1) |-> 0]
    /\ late = [s \in 0 .. n - 1 |-> -1]
    /\ posted = 0

Init == \E n \in 1 .. MaxStudents : \E c \in 1 .. MaxCapacity : InitWith(n, c)

InitFair == \E n \in 1 .. MaxFairStudents : \E c \in 1 .. MaxCapacity : InitWith(n, c)

InitAny == \E n \in 1 .. MaxAnyStudents : \E c \in 1 .. MaxCapacity : InitWith(n, c)

\* ------------------------------------------------------------ the child
sharedVars == <<rooms, students, room_attendance, exam_gate, room_mutex,
                exam_mutex, exam_over, spc, arg, count, total, out, incs, late, posted>>

\* main, lines 132-146: pipe(), fork(); the child starts
MainFork ==
    /\ mpc = "fork"
    /\ mpc' = "read"
    /\ child' = "allocate"
    /\ UNCHANGED <<NUM_STUDENTS, ROOM_CAPACITY, mi, pipe, room_ids_buf>>
    /\ UNCHANGED sharedVars

\* child_allocate_and_send, lines 110-118: fill room_ids and write it
ChildAllocateAndSend ==
    /\ child = "allocate"
    /\ pipe' = pipe \o BlockAssignment(NUM_STUDENTS, ROOM_CAPACITY)
    /\ child' = "exit"
    /\ UNCHANGED <<NUM_STUDENTS, ROOM_CAPACITY, mpc, mi, room_ids_buf>>
    /\ UNCHANGED sharedVars

\* An assignment source that is not the built-in one: any mapping of the
\* students to valid room indices arrives through the pipe.
ExternalAllocateAndSend ==
    /\ child = "allocate"
    /\ \E m \in [1 .. NUM_STUDENTS -> Rooms] : pipe' = pipe \o m
    /\ child' = "exit"
    /\ UNCHANGED <<NUM_STUDENTS, ROOM_CAPACITY, mpc, mi, room_ids_buf>>
    /\ UNCHANGED sharedVars

\* child_allocate_and_send, lines 120-122: free, close, _exit(0)
ChildExit ==
    /\ child = "exit"
    /\ child' = "exited"
    /\ UNCHANGED <<NUM_STUDENTS, ROOM_CAPACITY, mpc, mi, pipe, room_ids_buf>>
    /\ UNCHANGED sharedVars

\* ----------------------------------------------------------------- main
\* lines 149-152: read() blocks until the pipe holds data
MainRead ==
    /\ mpc = "read"
    /\ Len(pipe) >= NUM_STUDENTS
    /\ room_ids_buf' = [i \in Students |-> pipe[i + 1]]
    /\ pipe' = SubSeq(pipe, NUM_STUDENTS + 1, Len(pipe))
    /\ mpc' = "wait"
    /\ UNCHANGED <<NUM_STUDENTS, ROOM_CAPACITY, mi, child>>
    /\ UNCHANGED sharedVars

\* line 153: wait(NULL) returns once the child has exited
MainWait ==
    /\ mpc = "wait"
    /\ child = "exited"
    /\ mpc' = "init_rooms"
    /\ UNCHANGED <<NUM_STUDENTS, ROOM_CAPACITY, mi, child, pipe, room_ids_buf>>
    /\ UNCHANGED sharedVars

\* lines 156-160
MainInitRooms ==
    /\ mpc = "init_rooms"
    /\ rooms' = [r \in Rooms |-> [id |-> r, capacity |-> ROOM_CAPACITY]]
    /\ room_attendance' = [r \in Rooms |-> 0]
    /\ mpc' = "init_students"
    /\ UNCHANGED <<NUM_STUDENTS, ROOM_CAPACITY, mi, child, pipe, room_ids_buf,
                   students, exam_gate, room_mutex, exam_mutex, exam_over, spc,
                   arg, count, total, out, incs, late, posted>>

\* lines 161-164
MainInitStudents ==
    /\ mpc = "init_students"
    /\ students' = [i \in Students |-> [id |-> i + 1, room_id |-> room_ids_buf[i]]]
    /\ mpc' = "sem_init"
    /\ UNCHANGED <<NUM_STUDENTS, ROOM_CAPACITY, mi, child, pipe, room_ids_buf,
                   rooms, room_attendance, exam_gate, room_mutex, exam_mutex,
                   exam_over, spc, arg, count, total, out, incs, late, posted>>

\* the initial value given to sem_init
GateInitialValue == 0

\* line 166: sem_init(&exam_gate, 0, 0)
MainSemInit ==
    /\ mpc = "sem_init"
    /\ exam_gate' = GateInitialValue
    /\ mpc' = "create"
    /\ mi' = 0
    /\ UNCHANGED <<NUM_STUDENTS, ROOM_CAPACITY, child, pipe, room_ids_buf,
                   rooms, students, room_attendance, room_mutex, exam_mutex,
                   exam_over, spc, arg, count, total, out, incs, late, posted>>

\* lines 170-175: one iteration of the creation loop
MainCreate ==
    /\ mpc = "create"
    /\ IF mi < NUM_STUDENTS
         THEN /\ arg' = [arg EXCEPT ![mi] = [student_id |-> students[mi].id,
                                             room_id |-> students[mi].room_id]]
              /\ spc' = [spc EXCEPT ![mi] = "sem_wait"]
              /\ mi' = mi + 1
              /\ mpc' = mpc
         ELSE /\ mpc' = "start"
              /\ UNCHANGED <<arg, spc, mi>>
    /\ UNCHANGED <<NUM_STUDENTS, ROOM_CAPACITY, child, pipe, room_ids_buf,
                   rooms, students, room_attendance, exam_gate, room_mutex,
                   exam_mutex, exam_over, count, total, out, incs, late, posted>>

\* lines 178-179: usleep, then the start marker
MainStart ==
    /\ mpc = "start"
    /\ out' = [out EXCEPT !.started = TRUE]
    /\ mpc' = "post"
    /\ mi' = 0
    /\ UNCHANGED <<NUM_STUDENTS, ROOM_CAPACITY, child, pipe, room_ids_buf,
                   rooms, students, room_attendance, exam_gate, room_mutex,
                   exam_mutex, exam_over, spc, arg, count, total, incs, late, posted>>

\* one permit too many, one permit too few
PermitsPlusOne == NUM_STUDENTS + 1
PermitsMinusOne == NUM_STUDENTS - 1

\* the number of permits main posts
PermitsToPost == NUM_STUDENTS

\* lines 182-184: one iteration of the sem_post loop
MainPost ==
    /\ mpc = "post"
    /\ IF mi < PermitsToPost
         THEN /\ exam_gate' = exam_gate + 1
              /\ posted' = posted + 1
              /\ mi' = mi + 1
              /\ mpc' = mpc
         ELSE /\ mpc' = "lock_exam"
              /\ UNCHANGED <<exam_gate, posted, mi>>
    /\ UNCHANGED <<NUM_STUDENTS, ROOM_CAPACITY, child, pipe, room_ids_buf,
                   rooms, students, room_attendance, room_mutex, exam_mutex,
                   exam_over, spc, arg, count, total, out, incs, late>>

\* the end signalled without taking exam_mutex
MainLockExamSkipped ==
    /\ mpc = "lock_exam"
    /\ mpc' = "set_over"
    /\ UNCHANGED <<NUM_STUDENTS, ROOM_CAPACITY, mi, child, pipe, room_ids_buf>>
    /\ UNCHANGED sharedVars

\* lines 186-189: sleep(3), pthread_mutex_lock(&exam_mutex)
MainLockExam ==
    /\ mpc = "lock_exam"
    /\ exam_mutex = FREE
    /\ exam_mutex' = MAIN
    /\ mpc' = "set_over"
    /\ UNCHANGED <<NUM_STUDENTS, ROOM_CAPACITY, mi, child, pipe, room_ids_buf,
                   rooms, students, room_attendance, exam_gate, room_mutex,
                   exam_over, spc, arg, count, total, out, incs, late, posted>>

\* line 190: exam_over = 1
MainSetOver ==
    /\ mpc = "set_over"
    /\ exam_over' = 1
    /\ mpc' = "broadcast"
    /\ UNCHANGED <<NUM_STUDENTS, ROOM_CAPACITY, mi, child, pipe, room_ids_buf,
                   rooms, students, room_attendance, exam_gate, room_mutex,
                   exam_mutex, spc, arg, count, total, out, incs, late, posted>>

\* pthread_cond_signal in place of the broadcast: one waiter is woken
SignalOne(pcs) ==
    IF \E s \in DOMAIN pcs : pcs[s] = "cond_wait"
      THEN LET w == CHOOSE s \in DOMAIN pcs : pcs[s] = "cond_wait"
           IN [pcs EXCEPT ![w] = "woken"]
      ELSE pcs

\* pthread_cond_broadcast: every thread blocked on the condition is woken
Broadcast(pcs) == [s \in DOMAIN pcs |-> IF pcs[s] = "cond_wait" THEN "woken" ELSE pcs[s]]

\* line 191: pthread_cond_broadcast(&end_bell)
MainBroadcast ==
    /\ mpc = "broadcast"
    /\ spc' = Broadcast(spc)
    /\ mpc' = "unlock_exam"
    /\ UNCHANGED <<NUM_STUDENTS, ROOM_CAPACITY, mi, child, pipe, room_ids_buf,
                   rooms, students, room_attendance, exam_gate, room_mutex,
                   exam_mutex, exam_over, arg, count, total, out, incs, late, posted>>

\* lines 192-193: pthread_mutex_unlock(&exam_mutex), the end marker
MainUnlockExam ==
    /\ mpc = "unlock_exam"
    /\ exam_mutex' = FREE
    /\ out' = [out EXCEPT !.ended = TRUE]
    /\ mpc' = "join"
    /\ mi' = 0
    /\ UNCHANGED <<NUM_STUDENTS, ROOM_CAPACITY, child, pipe, room_ids_buf,
                   rooms, students, room_attendance, exam_gate, room_mutex,
                   exam_over, spc, arg, count, total, incs, late, posted>>

\* a join loop that stops one thread short
MainJoinSkipLast ==
    /\ mpc = "join"
    /\ IF mi < NUM_STUDENTS - 1
         THEN /\ spc[mi] = "done"
              /\ mi' = mi + 1
              /\ mpc' = mpc
         ELSE /\ mpc' = "sem_destroy"
              /\ mi' = mi
    /\ UNCHANGED <<NUM_STUDENTS, ROOM_CAPACITY, child, pipe, room_ids_buf>>
    /\ UNCHANGED sharedVars

\* a join loop that does not wait for the threads
MainJoinNoWait ==
    /\ mpc = "join"
    /\ IF mi < NUM_STUDENTS
         THEN /\ mi' = mi + 1
              /\ mpc' = mpc
         ELSE /\ mpc' = "sem_destroy"
              /\ mi' = mi
    /\ UNCHANGED <<NUM_STUDENTS, ROOM_CAPACITY, child, pipe, room_ids_buf>>
    /\ UNCHANGED sharedVars

\* lines 196-198: pthread_join returns once thread mi has terminated
MainJoin ==
    /\ mpc = "join"
    /\ IF mi < NUM_STUDENTS
         THEN /\ spc[mi] = "done"
              /\ mi' = mi + 1
              /\ mpc' = mpc
         ELSE /\ mpc' = "sem_destroy"
              /\ mi' = mi
    /\ UNCHANGED <<NUM_STUDENTS, ROOM_CAPACITY, child, pipe, room_ids_buf>>
    /\ UNCHANGED sharedVars

\* lines 200-204: sem_destroy, summary header, total = 0
MainSemDestroy ==
    /\ mpc = "sem_destroy"
    /\ total' = 0
    /\ mpc' = "summary"
    /\ mi' = 0
    /\ UNCHANGED <<NUM_STUDENTS, ROOM_CAPACITY, child, pipe, room_ids_buf,
                   rooms, students, room_attendance, exam_gate, room_mutex,
                   exam_mutex, exam_over, spc, arg, count, out, incs, late, posted>>

\* lines 205-214: one iteration of the summary loop; the total line after it
MainSummary ==
    /\ mpc = "summary"
    /\ IF mi < NUM_ROOMS
         THEN LET c == room_attendance[mi] IN
              /\ total' = total + c
              /\ out' = [out EXCEPT
                           !.summary = @ \cup {<<mi, c, rooms[mi].capacity>>},
                           !.warnings = IF OverCapacity(c, rooms[mi].capacity)
                                          THEN @ \cup {<<mi, c - rooms[mi].capacity>>}
                                          ELSE @]
              /\ mi' = mi + 1
              /\ mpc' = mpc
         ELSE /\ out' = [out EXCEPT !.total = total]
              /\ mpc' = "done"
              /\ UNCHANGED <<total, mi>>
    /\ UNCHANGED <<NUM_STUDENTS, ROOM_CAPACITY, child, pipe, room_ids_buf,
                   rooms, students, room_attendance, exam_gate, room_mutex,
                   exam_mutex, exam_over, spc, arg, count, incs, late, posted>>

\* -------------------------------------------------------- student threads
mainVars == <<NUM_STUDENTS, ROOM_CAPACITY, mpc, mi, child, pipe, room_ids_buf,
              rooms, students, total>>

\* a mutex that excludes nobody
CanLockAlways(m) == TRUE

\* a mutex can be taken when nobody holds it
CanLock(m) == m = FREE

\* a gate that never holds anybody back
CanPassAlways(gate) == TRUE

\* sem_wait succeeds when the semaphore's value is positive
CanPass(gate) == gate > 0

\* an if in place of the while: the flag is not tested again after a wake-up
AfterWaitNoRecheck == "unlock_exam"

\* where a thread continues after pthread_cond_wait returns: the while test
AfterWait == "test_over"

\* a wait that is entered without looking at the flag
MustWaitOnce(flag) == TRUE

\* the test of the wait loop: while (!exam_over)
MustWait(flag) == flag = 0

\* line 75: sem_wait(&exam_gate)
StudentSemWait(s) ==
    /\ spc[s] = "sem_wait"
    /\ CanPass(exam_gate)
    /\ exam_gate' = exam_gate - 1
    /\ spc' = [spc EXCEPT ![s] = "lock_room"]
    /\ UNCHANGED mainVars
    /\ UNCHANGED <<room_attendance, room_mutex, exam_mutex, exam_over, arg,
                   count, out, incs, late, posted>>

\* line 78: pthread_mutex_lock(&room_mutex)
StudentLockRoom(s) ==
    /\ spc[s] = "lock_room"
    /\ CanLock(room_mutex)
    /\ room_mutex' = s
    /\ spc' = [spc EXCEPT ![s] = "increment"]
    /\ UNCHANGED mainVars
    /\ UNCHANGED <<room_attendance, exam_gate, exam_mutex, exam_over, arg,
                   count, out, incs, late, posted>>

\* line 79: room_attendance[student->room_id]++
StudentIncrement(s) ==
    /\ spc[s] = "increment"
    /\ room_attendance' = Increment(room_attendance, arg[s].room_id)
    /\ incs' = [p \in DOMAIN incs |->
                   IF p[1] = s
                     THEN incs[p] + (room_attendance'[p[2]] - room_attendance[p[2]])
                     ELSE incs[p]]
    /\ spc' = [spc EXCEPT ![s] = "read_count"]
    /\ UNCHANGED mainVars
    /\ UNCHANGED <<exam_gate, room_mutex, exam_mutex, exam_over, arg, count,
                   out, late, posted>>

\* line 80: int count = room_attendance[student->room_id]
StudentReadCount(s) ==
    /\ spc[s] = "read_count"
    /\ count' = [count EXCEPT ![s] = room_attendance[arg[s].room_id]]
    /\ spc' = [spc EXCEPT ![s] = "report"]
    /\ UNCHANGED mainVars
    /\ UNCHANGED <<room_attendance, exam_gate, room_mutex, exam_mutex,
                   exam_over, arg, out, incs, late, posted>>

\* lines 83-88: the over-capacity ERROR line, then the "entered" line
StudentReport(s) ==
    /\ spc[s] = "report"
    /\ out' = [out EXCEPT
                 !.errors = IF OverCapacity(count[s], ROOM_CAPACITY)
                              THEN @ \cup {<<arg[s].room_id, count[s], arg[s].student_id>>}
                              ELSE @,
                 !.entered = @ \cup {<<arg[s].student_id, arg[s].room_id>>}]
    /\ spc' = [spc EXCEPT ![s] = "unlock_room"]
    /\ UNCHANGED mainVars
    /\ UNCHANGED <<room_attendance, exam_gate, room_mutex, exam_mutex,
                   exam_over, arg, count, incs, late, posted>>

\* a thread that leaves right after entering, without waiting for the end
StudentUnlockRoomThenLeave(s) ==
    /\ spc[s] = "unlock_room"
    /\ room_mutex' = FREE
    /\ late' = [late EXCEPT ![s] = exam_over]
    /\ spc' = [spc EXCEPT ![s] = "leave"]
    /\ UNCHANGED mainVars
    /\ UNCHANGED <<room_attendance, exam_gate, exam_mutex, exam_over, arg,
                   count, out, incs, posted>>

\* line 89: pthread_mutex_unlock(&room_mutex); the thread reaches awaitEnd
StudentUnlockRoom(s) ==
    /\ spc[s] = "unlock_room"
    /\ room_mutex' = FREE
    /\ late' = [late EXCEPT ![s] = exam_over]
    /\ spc' = [spc EXCEPT ![s] = "lock_exam"]
    /\ UNCHANGED mainVars
    /\ UNCHANGED <<room_attendance, exam_gate, exam_mutex, exam_over, arg,
                   count, out, incs, posted>>

\* line 92: pthread_mutex_lock(&exam_mutex)
StudentLockExam(s) ==
    /\ spc[s] = "lock_exam"
    /\ CanLock(exam_mutex)
    /\ exam_mutex' = s
    /\ spc' = [spc EXCEPT ![s] = "test_over"]
    /\ UNCHANGED mainVars
    /\ UNCHANGED <<room_attendance, exam_gate, room_mutex, exam_over, arg,
                   count, out, incs, late, posted>>

\* a wait that sleeps without giving exam_mutex back
StudentTestOverKeepLock(s) ==
    /\ spc[s] = "test_over"
    /\ IF MustWait(exam_over)
         THEN spc' = [spc EXCEPT ![s] = "cond_wait"]
         ELSE spc' = [spc EXCEPT ![s] = "unlock_exam"]
    /\ exam_mutex' = exam_mutex
    /\ UNCHANGED mainVars
    /\ UNCHANGED <<room_attendance, exam_gate, room_mutex, exam_over, arg,
                   count, out, incs, late, posted>>

\* lines 93-94: while (!exam_over) pthread_cond_wait(&end_bell, &exam_mutex);
\* the wait releases exam_mutex and blocks in one atomic step
StudentTestOver(s) ==
    /\ spc[s] = "test_over"
    /\ IF MustWait(exam_over)
         THEN /\ spc' = [spc EXCEPT ![s] = "cond_wait"]
              /\ exam_mutex' = FREE
         ELSE /\ spc' = [spc EXCEPT ![s] = "unlock_exam"]
              /\ exam_mutex' = exam_mutex
    /\ UNCHANGED mainVars
    /\ UNCHANGED <<room_attendance, exam_gate, room_mutex, exam_over, arg,
                   count, out, incs, late, posted>>

\* line 94: pthread_cond_wait may wake without a signal (POSIX)
StudentSpuriousWake(s) ==
    /\ spc[s] = "cond_wait"
    /\ spc' = [spc EXCEPT ![s] = "woken"]
    /\ UNCHANGED mainVars
    /\ UNCHANGED <<room_attendance, exam_gate, room_mutex, exam_mutex,
                   exam_over, arg, count, out, incs, late, posted>>

\* line 94: a woken pthread_cond_wait takes exam_mutex again before returning
StudentReacquire(s) ==
    /\ spc[s] = "woken"
    /\ CanLock(exam_mutex)
    /\ exam_mutex' = s
    /\ spc' = [spc EXCEPT ![s] = AfterWait]
    /\ UNCHANGED mainVars
    /\ UNCHANGED <<room_attendance, exam_gate, room_mutex, exam_over, arg,
                   count, out, incs, late, posted>>

\* line 95: pthread_mutex_unlock(&exam_mutex)
StudentUnlockExam(s) ==
    /\ spc[s] = "unlock_exam"
    /\ exam_mutex' = FREE
    /\ spc' = [spc EXCEPT ![s] = "leave"]
    /\ UNCHANGED mainVars
    /\ UNCHANGED <<room_attendance, exam_gate, room_mutex, exam_over, arg,
                   count, out, incs, late, posted>>

\* lines 98-100: the "left" line, free(student), return
StudentLeave(s) ==
    /\ spc[s] = "leave"
    /\ out' = [out EXCEPT !.left = @ \cup {<<arg[s].student_id, arg[s].room_id>>}]
    /\ spc' = [spc EXCEPT ![s] = "done"]
    /\ UNCHANGED mainVars
    /\ UNCHANGED <<room_attendance, exam_gate, room_mutex, exam_mutex,
                   exam_over, arg, count, incs, late, posted>>

\* ------------------------------------------------------- specifications
Common ==
    \/ MainFork
    \/ ChildExit
    \/ MainRead
    \/ MainWait
    \/ MainInitRooms
    \/ MainInitStudents
    \/ MainSemInit
    \/ MainCreate
    \/ MainStart
    \/ MainPost
    \/ MainLockExam
    \/ MainSetOver
    \/ MainBroadcast
    \/ MainUnlockExam
    \/ MainJoin
    \/ MainSemDestroy
    \/ MainSummary
    \/ \E s \in Students : StudentSemWait(s)
    \/ \E s \in Students : StudentLockRoom(s)
    \/ \E s \in Students : StudentIncrement(s)
    \/ \E s \in Students : StudentReadCount(s)
    \/ \E s \in Students : StudentReport(s)
    \/ \E s \in Students : StudentUnlockRoom(s)
    \/ \E s \in Students : StudentLockExam(s)
    \/ \E s \in Students : StudentTestOver(s)
    \/ \E s \in Students : StudentSpuriousWake(s)
    \/ \E s \in Students : StudentReacquire(s)
    \/ \E s \in Students : StudentUnlockExam(s)
    \/ \E s \in Students : StudentLeave(s)

\* the program as written: the child's block assignment
Next == ChildAllocateAndSend \/ Common

Spec == Init /\ [][Next]_vars

\* the program fed by any assignment source that yields valid room indices
NextAny == ExternalAllocateAndSend \/ Common

SpecAny == InitAny /\ [][NextAny]_vars

\* Fair scheduling: every thread that can run eventually does, and a thread
\* that keeps asking for exam_mutex eventually gets it, although threads
\* that wake spuriously may take it again and again (room_mutex is taken
\* once by each thread, so weak fairness is enough for it).  A spurious
\* wake-up is never required to happen.
MainStep ==
    \/ MainFork \/ MainRead \/ MainWait \/ MainInitRooms \/ MainInitStudents
    \/ MainSemInit \/ MainCreate \/ MainStart \/ MainPost \/ MainSetOver
    \/ MainBroadcast \/ MainUnlockExam \/ MainJoin \/ MainSemDestroy
    \/ MainSummary

ChildStep == ChildAllocateAndSend \/ ChildExit

StudentStep(s) ==
    \/ StudentSemWait(s) \/ StudentLockRoom(s) \/ StudentIncrement(s)
    \/ StudentReadCount(s) \/ StudentReport(s) \/ StudentUnlockRoom(s)
    \/ StudentTestOver(s) \/ StudentUnlockExam(s) \/ StudentLeave(s)

\* the two places where a student thread asks for exam_mutex
StudentTakeExamMutex(s) == StudentLockExam(s) \/ StudentReacquire(s)

Fairness ==
    /\ WF_vars(ChildStep)
    /\ WF_vars(MainStep)
    /\ SF_vars(MainLockExam)
    /\ \A s \in 0 .. MaxFairStudents - 1 :
          /\ WF_vars(s \in Students /\ StudentStep(s))
          /\ SF_vars(s \in Students /\ StudentTakeExamMutex(s))

FairSpec == InitFair /\ [][Next]_vars /\ Fairness

\* ------------------------------------------------- what the claims speak of
RECURSIVE SumOver(_, _)
SumOver(f, S) ==
    IF S = {} THEN 0
    ELSE LET x == CHOOSE y \in S : TRUE IN f[x] + SumOver(f, S \ {x})

\* main has not executed its first sem_post
BeforeFirstPost ==
    \/ mpc \in {"fork", "read", "wait", "init_rooms", "init_students",
                "sem_init", "create", "start"}
    \/ mpc = "post" /\ mi = 0

\* main has left the sem_post loop
AfterPosting ==
    mpc \in {"lock_exam", "set_over", "broadcast", "unlock_exam", "join",
             "sem_destroy", "summary", "done"}

\* main has released exam_mutex after the broadcast
EndReleased == mpc \in {"join", "sem_destroy", "summary", "done"}

\* threads that have returned from sem_wait
PassedGate == {s \in Students : spc[s] \notin {"not_created", "sem_wait"}}

\* threads that have incremented their room's counter
Admitted == {s \in Students : spc[s] \in {"read_count", "report", "unlock_room",
                "lock_exam", "test_over", "cond_wait", "woken", "unlock_exam",
                "leave", "done"}}

\* threads past the wait loop
Departing == {s \in Students : spc[s] \in {"unlock_exam", "leave", "done"}}

AllDeparted == \A s \in Students : spc[s] = "done"

\* ------------------------------------------------------------------ C1
\* C1: after a full run (main is done: the gate was opened, the end was
\* signalled and every thread was joined) the room counters add up to
\* NUM_STUDENTS, and so does the total main computed and printed.
C1_SumConservation ==
    mpc = "done" =>
        /\ SumOver(room_attendance, Rooms) = NUM_STUDENTS
        /\ total = NUM_STUDENTS
        /\ out.total = NUM_STUDENTS

\* a full run of the largest configuration, spread over more than one room
C1_Witness ==
    /\ mpc = "done"
    /\ NUM_STUDENTS = MaxStudents
    /\ NUM_ROOMS > 1
    /\ out.total = NUM_STUDENTS

\* ------------------------------------------------------------------ C2
\* C2: as long as main has not executed its first sem_post, every room
\* counter is 0 and every created student thread is still at sem_wait.
C2_NoAdmissionBeforeOpen ==
    BeforeFirstPost =>
        /\ \A r \in Rooms : room_attendance[r] = 0
        /\ \A s \in Students : spc[s] \in {"not_created", "sem_wait"}
        /\ exam_gate = 0

\* every thread has been created and waits; the gate is still closed
C2_Witness ==
    /\ mpc = "post"
    /\ mi = 0
    /\ NUM_STUDENTS > 1
    /\ \A s \in Students : spc[s] = "sem_wait"

\* ------------------------------------------------------------------ C3
\* C3: while exam_over is 0 no student thread is past its wait loop (none
\* has left the loop, logged "left" or terminated).
C3_NoDepartureBeforeEnd ==
    exam_over = 0 => Departing = {} /\ out.left = {}

\* a thread holds exam_mutex at the test of the loop while exam_over is
\* still 0 and another thread is already waiting
C3_Witness ==
    \E s \in Students :
        /\ exam_over = 0
        /\ spc[s] = "test_over"
        /\ \E t \in Students : spc[t] = "cond_wait"

\* ------------------------------------------------------------------ C4
\* C4: every student increments exactly once, and only the counter of its
\* assigned room: the recorded (student, room) increments are 1 for the
\* assigned room of an admitted student and 0 everywhere else, and after a
\* full run every pair of the assignment occurs once and each counter is
\* the number of students assigned to its room.
C4_OneIncrementEach ==
    /\ \A p \in DOMAIN incs :
          incs[p] = IF p[1] \in Admitted /\ p[2] = students[p[1]].room_id
                      THEN 1 ELSE 0
    /\ mpc = "done" =>
          /\ \A s \in Students : incs[<<s, room_ids_buf[s]>>] = 1
          /\ \A r \in Rooms :
                room_attendance[r] =
                    Cardinality({s \in Students : room_ids_buf[s] = r})

\* after a full run with several rooms, a student of the last room is
\* recorded once
C4_Witness ==
    /\ mpc = "done"
    /\ NUM_ROOMS > 1
    /\ \E s \in Students :
          /\ students[s].room_id = NUM_ROOMS - 1
          /\ incs[<<s, NUM_ROOMS - 1>>] = 1

\* ------------------------------------------------------------------ C5
\* C5: under fair scheduling every run terminates: main reaches the end of
\* the summary and every student thread has terminated.
C5_Termination == <>(mpc = "done" /\ AllDeparted)

\* a run has ended with every thread departed
C5_Witness ==
    /\ mpc = "done"
    /\ AllDeparted
    /\ NUM_STUDENTS = MaxFairStudents

\* ------------------------------------------------------------------ C6
\* C6: the end signal loses no wake-up: once main has set exam_over,
\* broadcast and released exam_mutex, no student thread is blocked in
\* pthread_cond_wait, and every student thread that calls awaitEnd (asks
\* for exam_mutex), before or after the broadcast, eventually terminates.
C6_NoLostWakeup ==
    /\ [](EndReleased => \A s \in Students : spc[s] # "cond_wait")
    /\ \A s \in 0 .. MaxFairStudents - 1 :
          (s \in Students /\ spc[s] = "lock_exam")
              ~> (s \in Students /\ spc[s] = "done")

\* main has released exam_mutex; one thread was woken by the broadcast
\* and another starts its flag check only now
C6_Witness ==
    /\ EndReleased
    /\ \E s, u \in Students :
          /\ spc[s] = "woken"
          /\ spc[u] = "lock_exam"
          /\ late[u] = 1

\* ------------------------------------------------------------------ C7
\* C7: a student thread that reached awaitEnd when exam_over was already 1
\* is never in pthread_cond_wait, neither blocked nor woken from it.
C7_LateArrivalNeverWaits ==
    \A s \in Students : late[s] = 1 => spc[s] \notin {"cond_wait", "woken"}

\* a thread that arrived after the end signal has taken exam_mutex, seen
\* the flag and left the loop
C7_Witness ==
    \E s \in Students : late[s] = 1 /\ spc[s] = "unlock_exam"

\* ------------------------------------------------------------------ C8
\* C8: the permit count is 0 until the first sem_post and never negative;
\* the threads that have passed sem_wait number permits posted minus
\* permits available, never more than the permits posted; main posts
\* NUM_STUDENTS permits in all, and once every thread has passed the gate
\* the permit count is 0.
C8_PermitAccounting ==
    /\ exam_gate >= 0
    /\ BeforeFirstPost => exam_gate = 0 /\ posted = 0
    /\ Cardinality(PassedGate) = posted - exam_gate
    /\ Cardinality(PassedGate) <= posted
    /\ posted <= NUM_STUDENTS
    /\ mpc = "post" => posted = mi
    /\ AfterPosting => posted = NUM_STUDENTS
    /\ Cardinality(PassedGate) = NUM_STUDENTS => exam_gate = 0

\* every thread has passed the gate and the permits are used up
C8_Witness ==
    /\ NUM_STUDENTS > 1
    /\ Cardinality(PassedGate) = NUM_STUDENTS
    /\ posted = NUM_STUDENTS
    /\ exam_gate = 0

\* ------------------------------------------------------------------ C9
\* the summary printed a WARNING for room r
Warned(r) == \E w \in out.warnings : w[1] = r

\* some admission into room r printed an ERROR
Errored(r) == \E e \in out.errors : e[1] = r

\* C9: no counter is ever negative; a WARNING or an ERROR for a room is
\* only ever printed when its counter exceeds the capacity; and after a
\* full run a room has a WARNING exactly when its final count exceeds its
\* capacity, and at least one ERROR exactly when it exceeds ROOM_CAPACITY.
C9_OverCapacityIff ==
    /\ \A r \in Rooms :
          /\ room_attendance[r] >= 0
          /\ Warned(r) => room_attendance[r] > rooms[r].capacity
          /\ Errored(r) => room_attendance[r] > ROOM_CAPACITY
    /\ mpc = "done" =>
          \A r \in Rooms :
              /\ Warned(r) <=> room_attendance[r] > rooms[r].capacity
              /\ Errored(r) <=> room_attendance[r] > ROOM_CAPACITY

\* a full run in which one room ended over capacity and was reported, and
\* another room ended within capacity and was not
C9_Witness ==
    /\ mpc = "done"
    /\ \E r, q \in Rooms :
          /\ room_attendance[r] > ROOM_CAPACITY
          /\ Warned(r) /\ Errored(r)
          /\ room_attendance[q] <= ROOM_CAPACITY
          /\ ~Warned(q) /\ ~Errored(q)

\* ----------------------------------------------------------------- C10
\* students the assignment received by main maps to room r
MappedTo(r) == {s \in Students : room_ids_buf[s] = r}

\* C10: whatever valid mapping arrives, a student thread that holds
\* room_mutex can always count itself in, however full the room is, and a
\* thread that asks for room_mutex is held back by the mutex only; until
\* main is done some thread can always take a step (nothing hangs); after
\* a full run every room's count is the number of students mapped to it,
\* every student was logged as entered and as left, every thread has
\* terminated, and the warnings are exactly one per over-full room, with
\* the surplus count - capacity.
C10_PermissiveAdmission ==
    /\ mpc # "done" => ENABLED NextAny
    /\ \A s \in Students :
          /\ spc[s] = "increment" => ENABLED StudentIncrement(s)
          /\ (spc[s] = "lock_room" /\ room_mutex = FREE) =>
                ENABLED StudentLockRoom(s)
          /\ spc[s] \in {"unlock_room", "lock_exam"} =>
                <<s + 1, room_ids_buf[s]>> \in out.entered
    /\ mpc = "done" =>
          /\ \A r \in Rooms : room_attendance[r] = Cardinality(MappedTo(r))
          /\ out.warnings =
                {<<r, Cardinality(MappedTo(r)) - ROOM_CAPACITY>> :
                     r \in {q \in Rooms : Cardinality(MappedTo(q)) > ROOM_CAPACITY}}
          /\ out.entered = {<<s + 1, room_ids_buf[s]>> : s \in Students}
          /\ out.left = out.entered
          /\ AllDeparted

\* a full run in which more students were mapped to a room than it has
\* seats: the room holds them all and the warning gives the surplus
C10_Witness ==
    /\ mpc = "done"
    /\ AllDeparted
    /\ \E r \in Rooms :
          /\ Cardinality(MappedTo(r)) > ROOM_CAPACITY
          /\ room_attendance[r] = Cardinality(MappedTo(r))
          /\ <<r, room_attendance[r] - ROOM_CAPACITY>> \in out.warnings

\* ----------------------------------------------------------------- C11
Min(a, b) == IF a < b THEN a ELSE b

\* the number of students the child's assignment of n students puts in room r
RoomLoad(n, c, r) ==
    LET a == BlockAssignment(n, c)
    IN Cardinality({k \in 1 .. n : a[k] = r})

\* C11: with the built-in block assignment no counter ever exceeds
\* ROOM_CAPACITY and no ERROR or WARNING is ever printed; after a full run
\* room r holds min(C, N - r*C) students.  For the shipped sizes the
\* child's assignment gives 10 rooms of 30 for 300 students, and 11 rooms
\* for 301 students, rooms 0..9 with 30 and room 10 with 1.
C11_BlockAssignmentFits ==
    /\ \A r \in Rooms : room_attendance[r] <= ROOM_CAPACITY
    /\ out.errors = {}
    /\ out.warnings = {}
    /\ mpc = "done" =>
          /\ \A r \in Rooms :
                room_attendance[r] =
                    Min(ROOM_CAPACITY, NUM_STUDENTS - r * ROOM_CAPACITY)
          /\ NumRooms(300, 30) = 10
          /\ \A r \in 0 .. 9 : RoomLoad(300, 30, r) = 30
          /\ NumRooms(301, 30) = 11
          /\ \A r \in 0 .. 9 : RoomLoad(301, 30, r) = 30
          /\ RoomLoad(301, 30, 10) = 1

\* a full run whose last room is only partly filled
C11_Witness ==
    /\ mpc = "done"
    /\ NUM_ROOMS > 1
    /\ room_attendance[0] = ROOM_CAPACITY
    /\ room_attendance[NUM_ROOMS - 1] = 1
    /\ ROOM_CAPACITY > 1
    /\ out.summary # {}

\* ----------------------------------------------------------------- C12
\* main has left the join loop: it is about to read, is reading or has read
\* room_attendance for the summary
AfterJoin == mpc \in {"sem_destroy", "summary", "done"}

\* C12: main reads the counters for the summary only after every student
\* thread was joined: whenever main is past the join loop, and whenever a
\* summary line has been printed, every student thread has terminated,
\* nobody holds room_mutex, and each printed count is the room's counter.
C12_JoinBeforeRead ==
    /\ AfterJoin => AllDeparted /\ room_mutex = FREE
    /\ out.summary # {} => AllDeparted
    /\ \A l \in out.summary : l[2] = room_attendance[l[1]]

\* main is in the middle of the summary of a run with several students
\* and rooms: one room's line is printed, another is still to be read
C12_Witness ==
    /\ mpc = "summary"
    /\ NUM_STUDENTS > 1
    /\ mi = 1
    /\ mi < NUM_ROOMS
    /\ \E l \in out.summary : l[1] = 0 /\ l[2] > 0

\* ----------------------------------------------------------------- C13
\* students[] holds the whole mapping: student index i has id i + 1 and
\* room i div ROOM_CAPACITY, a valid room index
StoredMapping ==
    \A i \in Students :
        /\ students[i] = [id |-> i + 1, room_id |-> i \div ROOM_CAPACITY]
        /\ students[i].room_id \in Rooms

\* main is past the loop that fills students[]
AfterInitStudents ==
    mpc \notin {"fork", "read", "wait", "init_rooms", "init_students"}

\* C13: NUM_ROOMS is the ceiling of NUM_STUDENTS / ROOM_CAPACITY; what main
\* receives and stores gives student index i the room i div ROOM_CAPACITY,
\* which lies in 0 .. NUM_ROOMS - 1; and the whole mapping is in students[]
\* before any student thread exists, each thread being handed its own pair.
C13_AssignmentStoredFirst ==
    /\ NUM_ROOMS * ROOM_CAPACITY >= NUM_STUDENTS
    /\ (NUM_ROOMS - 1) * ROOM_CAPACITY < NUM_STUDENTS
    /\ mpc \notin {"fork", "read"} =>
          \A i \in Students : room_ids_buf[i] = i \div ROOM_CAPACITY
    /\ AfterInitStudents => StoredMapping
    /\ \A s \in Students :
          spc[s] # "not_created" =>
              /\ StoredMapping
              /\ arg[s] = [student_id |-> s + 1, room_id |-> s \div ROOM_CAPACITY]

\* the first thread exists, the last one does not yet, and the last
\* student's room, the last room of several, is already stored
C13_Witness ==
    /\ mpc = "create"
    /\ mi = 1
    /\ NUM_ROOMS > 1
    /\ spc[0] = "sem_wait"
    /\ spc[NUM_STUDENTS - 1] = "not_created"
    /\ students[NUM_STUDENTS - 1].room_id = NUM_ROOMS - 1

\* ----------------------------------------------------------------- C14
\* threads between pthread_mutex_lock(&room_mutex) and its unlock
InRoomRegion ==
    {s \in Students : spc[s] \in {"increment", "read_count", "report", "unlock_room"}}

\* threads of room r that have read their count back
HasRead(r) ==
    {s \in Students : arg[s].room_id = r /\ s \in Admitted /\ spc[s] # "read_count"}

\* threads that have printed their "entered" line
HasReported ==
    {s \in Students : s \in Admitted /\ spc[s] \notin {"read_count", "report"}}

\* C14: at most one student thread is inside the room_mutex region, and it
\* is the owner of room_mutex; a thread that has incremented finds the
\* counter at the earlier admissions of its room plus one and reads back
\* that value, which is still the counter when it reports; the values read
\* in a room are 1, 2, ..., k without repetition; and the ERROR lines are
\* those of the threads whose own value exceeds ROOM_CAPACITY.
C14_SerializedAdmission ==
    /\ Cardinality(InRoomRegion) <= 1
    /\ \A s \in Students : s \in InRoomRegion <=> room_mutex = s
    /\ \A s \in Students :
          /\ spc[s] = "read_count" =>
                room_attendance[arg[s].room_id] =
                    Cardinality(HasRead(arg[s].room_id)) + 1
          /\ spc[s] \in {"report", "unlock_room"} =>
                count[s] = room_attendance[arg[s].room_id]
    /\ \A r \in Rooms :
          /\ {count[s] : s \in HasRead(r)} = 1 .. Cardinality(HasRead(r))
          /\ \A s, u \in HasRead(r) : s # u => count[s] # count[u]
    /\ out.errors =
          {<<arg[s].room_id, count[s], s + 1>> :
               s \in {u \in HasReported : count[u] > ROOM_CAPACITY}}

\* the second thread to enter a room of one seat holds room_mutex, has
\* read the value 2 and is about to report it, while the first holds 1
C14_Witness ==
    \E s, u \in Students :
        /\ s # u
        /\ arg[s].room_id = arg[u].room_id
        /\ spc[s] = "report"
        /\ room_mutex = s
        /\ count[s] = 2
        /\ count[u] = 1
        /\ ROOM_CAPACITY = 1

\* ----------------------------------------------------------------- C15
\* threads assigned to room r that have completed their admission (their
\* increment of the room's counter)
AdmittedTo(r) == {s \in Admitted : students[s].room_id = r}

\* C15: in every reachable state, so in particular whenever room_mutex is
\* free and at any instant after the end was signalled, each counter is
\* exactly the number of threads assigned to its room that have completed
\* their admission, those admitted after exam_over was set included.
C15_CounterIsAdmitted ==
    \A r \in Rooms : room_attendance[r] = Cardinality(AdmittedTo(r))

\* after the end signal, with room_mutex free, a room counts two threads,
\* one of which was admitted only after exam_over was set
C15_Witness ==
    /\ exam_over = 1
    /\ out.ended
    /\ room_mutex = FREE
    /\ \E r \in Rooms :
          /\ room_attendance[r] = 2
          /\ \E s \in AdmittedTo(r) : late[s] = 1
          /\ \E s \in AdmittedTo(r) : late[s] = 0

\* ----------------------------------------------------------------- C16
\* main has executed exam_over = 1
AfterSetOver ==
    mpc \in {"broadcast", "unlock_exam", "join", "sem_destroy", "summary", "done"}

\* C16: exam_over is 0 until main has executed its assignment and 1 from
\* then on; every step that changes it is main's, taken while main holds
\* exam_mutex, and takes it from 0 to 1; it never goes back to 0.
C16_FlagMonotonic ==
    /\ [](exam_over = IF AfterSetOver THEN 1 ELSE 0)
    /\ [][exam_over' # exam_over =>
             /\ exam_over = 0
             /\ exam_over' = 1
             /\ mpc = "set_over"
             /\ exam_mutex = MAIN
             /\ exam_mutex' = MAIN]_vars
    /\ [][exam_over = 1 => exam_over' = 1]_vars

\* main has just set the flag and still holds exam_mutex while a student
\* thread waits on the condition and another asks for the mutex
C16_Witness ==
    /\ exam_over = 1
    /\ mpc = "broadcast"
    /\ exam_mutex = MAIN
    /\ \E s, u \in Students : spc[s] = "cond_wait" /\ spc[u] = "lock_exam"

\* ----------------------------------------------------------------- C17
\* The state of the participant state machine a thread position belongs to:
\* 0 no thread yet, 1 Created / AwaitingGate (the thread's first statement
\* is sem_wait), 2 Admitting, 3 InSession, 4 AwaitingEnd, 5 Departed.
TaskState(p) ==
    CASE p = "not_created" -> 0
      [] p = "sem_wait" -> 1
      [] p \in {"lock_room", "increment", "read_count", "report", "unlock_room"} -> 2
      [] p = "lock_exam" -> 3
      [] p \in {"test_over", "cond_wait", "woken", "unlock_exam", "leave"} -> 4
      [] p = "done" -> 5

\* some statement of student thread s can be executed
StudentCanStep(s) ==
    ENABLED (StudentStep(s) \/ StudentTakeExamMutex(s) \/ StudentSpuriousWake(s))

\* C17: every step leaves each student thread in its state or moves it to
\* the next one in the order Created/AwaitingGate, Admitting, InSession,
\* AwaitingEnd, Departed: no state is skipped and none is entered again;
\* a thread that has departed stays departed and has no statement left to
\* execute.
C17_ForwardOnly ==
    /\ [][\A s \in Students :
             \/ TaskState(spc'[s]) = TaskState(spc[s])
             \/ TaskState(spc'[s]) = TaskState(spc[s]) + 1]_vars
    /\ [][\A s \in Students : spc[s] = "done" => spc'[s] = "done"]_vars
    /\ [](\A s \in Students : spc[s] = "done" => ~StudentCanStep(s))

\* one thread has departed while another, woken from the condition wait,
\* is still awaiting the end
C17_Witness ==
    \E s, u \in Students :
        /\ spc[s] = "done"
        /\ spc[u] = "woken"

\* ----------------------------------------------------------------- C18
\* C18: when main has printed the exam-start marker, every student has
\* already entered (been counted into and logged in) its assigned room.
\* main prints the marker before its first sem_post, so this fails in the
\* very state the marker is printed in.
C18_AllEnteredBeforeStart ==
    out.started =>
        \A s \in Students :
            /\ s \in Admitted
            /\ <<s + 1, students[s].room_id>> \in out.entered

\* ----------------------------------------------------------------- C19
\* threads between taking exam_mutex and giving it back (the condition
\* wait gives it back while the thread sleeps)
InExamRegion == {s \in Students : spc[s] \in {"test_over", "unlock_exam"}}

\* everything is over: main has finished and every thread has departed
RunOver == mpc = "done" /\ AllDeparted

\* a statement of some thread other than a spurious wake-up
ProgramStep ==
    \/ ChildStep
    \/ MainStep
    \/ MainLockExam
    \/ \E s \in Students : StudentStep(s) \/ StudentTakeExamMutex(s)

\* C19: no thread holds room_mutex and exam_mutex together; a student
\* thread holds room_mutex exactly inside the admission region and
\* exam_mutex exactly between taking it and giving it back, so it holds
\* neither while it is blocked on the gate, asleep in the condition wait or
\* terminated, and main holds exam_mutex only around the end signal; and
\* as long as the run is not over, some thread can execute a statement
\* (a spurious wake-up not counted).
C19_DeadlockFree ==
    /\ room_mutex = FREE \/ exam_mutex = FREE \/ room_mutex # exam_mutex
    /\ room_mutex # MAIN
    /\ \A s \in Students :
          /\ room_mutex = s <=> s \in InRoomRegion
          /\ exam_mutex = s <=> s \in InExamRegion
          /\ spc[s] \in {"not_created", "sem_wait", "cond_wait", "woken", "done"} =>
                room_mutex # s /\ exam_mutex # s
    /\ exam_mutex = MAIN <=> mpc \in {"set_over", "broadcast", "unlock_exam"}
    /\ ~RunOver => ENABLED ProgramStep

\* a student thread is asleep in the condition wait, a second holds
\* exam_mutex and a third holds room_mutex
C19_Witness ==
    \E s, u, v \in Students :
        /\ spc[s] = "cond_wait"
        /\ exam_mutex = u
        /\ room_mutex = v
        /\ u # v

====
